---- MODULE Spec2Model ----
\* TsrpcServer (src/src/TsrpcServer.ts): the protocol registry (implementPtl,
\* getPtlUrl) and the request pipeline built by init(): body decode, protocol
\* check, user middleware, final router (pre-dispatch checks, validation,
\* handler, catch, completion hook).
\*
\* JavaScript strings that the code inspects (file names, urls) are sequences
\* of one-character strings; messages that the code only passes on are
\* sequences of opaque tokens, so that `a + ': ' + b` is <<a, ": ", b>>.
EXTENDS Integers, Sequences, FiniteSets, TLC

VARIABLES
    config,          \* this.config (hideApiPath, showParamInvalidReason, urlRootPath, protocolPath)
    onApiComplete,   \* whether the optional onApiComplete hook is assigned
    expressApp,      \* this._expressApp: the application init() built, with its middleware stack
    server,          \* whether this._server refers to an http.Server
    implementedUrl,  \* this._implementedUrl : rpcUrl -> {protocol, handler, reqValidator}
    lastImpl,        \* the last implementPtl call: whether it warned of a duplicate, whether it threw
    pc,              \* position of the request in the pipeline
    req,             \* the ApiRequest: path, body, args, rpcUrl, rpcPtl
    res,             \* the ApiResponse: apiPreCheckError and what was sent to the client
    validateResult,  \* the local validateResult of the final router
    handlerResult,   \* how the awaited handler settled
    deferred,        \* a setTimeout callback of the handler is pending
    uncaught,        \* the exception that rejected the final router's promise, if any
    log              \* the calls made for this request, in order

vars == <<config, onApiComplete, expressApp, server, implementedUrl, lastImpl, pc, req, res,
          validateResult, handlerResult, deferred, uncaught, log>>

----------------------------------------------------------------------------
\* JavaScript values and string primitives

Undefined == [t |-> "undefined", s |-> <<>>]
JsStr(s) == [t |-> "string", s |-> s]
JsNum(s) == [t |-> "number", s |-> s]

\* JavaScript truthiness of a value: '' and undefined are falsy
Truthy(v) == \/ v.t = "string" /\ v.s # <<>>
             \/ v.t = "number" /\ v.s # <<"0">>

\* v == null
IsNullish(v) == v.t = "undefined"

\* \w of a JavaScript regular expression
WordChars ==
    {"a","b","c","d","e","f","g","h","i","j","k","l","m","n","o","p","q","r",
     "s","t","u","v","w","x","y","z",
     "A","B","C","D","E","F","G","H","I","J","K","L","M","N","O","P","Q","R",
     "S","T","U","V","W","X","Y","Z",
     "0","1","2","3","4","5","6","7","8","9","_"}

StartsWith(s, p) == Len(s) >= Len(p) /\ SubSeq(s, 1, Len(p)) = p

EndsWith(s, p) == Len(s) >= Len(p) /\ SubSeq(s, Len(s) - Len(p) + 1, Len(s)) = p

\* String.prototype.substr(start, length): a length <= 0 gives ''
Substr(s, start, length) ==
    IF length <= 0 \/ start >= Len(s) THEN <<>>
    ELSE SubSeq(s, start + 1, IF start + length > Len(s) THEN Len(s) ELSE start + length)

\* String.prototype.substr(start)
SubstrFrom(s, start) == Substr(s, start, Len(s) - start)

\* .replace(/\.js$/, '.ts')
ReplaceJsSuffix(s) ==
    IF EndsWith(s, <<".", "j", "s">>)
    THEN SubSeq(s, 1, Len(s) - 3) \o <<".", "t", "s">>
    ELSE s

\* .replace(/\\/g, '/')
ReplaceBackslashes(s) == [i \in 1..Len(s) |-> IF s[i] = "\\" THEN "/" ELSE s[i]]

\* whether /Ptl(\w+)$/ matches s starting at index i
PtlMatchesAt(s, i) ==
    /\ i + 3 <= Len(s)
    /\ SubSeq(s, i, i + 2) = <<"P", "t", "l">>
    /\ \A k \in (i + 3)..Len(s) : s[k] \in WordChars

\* .replace(/Ptl(\w+)$/, '$1'): the leftmost match loses its 'Ptl'
ReplacePtlPrefix(s) ==
    LET hits == {i \in 1..Len(s) : PtlMatchesAt(s, i)} IN
    IF hits = {} THEN s
    ELSE LET i == CHOOSE h \in hits : \A g \in hits : h <= g
         IN SubSeq(s, 1, i - 1) \o SubSeq(s, i + 3, Len(s))

----------------------------------------------------------------------------
\* Configuration, protocols, handlers

ProtocolPath == <<"/", "p">>

\* constructor: urlRootPath must end with '/'
NormalizeUrlRootPath(root) ==
    IF EndsWith(root, <<"/">>) THEN root ELSE root \o <<"/">>

\* the conf objects the constructor is given
Confs ==
    [hideApiPath : BOOLEAN, showParamInvalidReason : BOOLEAN,
     urlRootPath : {<<"/", "v">>}, protocolPath : {ProtocolPath}]

\* constructor: this.config
Constructor(conf) ==
    [conf EXCEPT !.urlRootPath = NormalizeUrlRootPath(conf.urlRootPath)]

\* protocol descriptors (TsrpcPtl: name, filename)
PtlA    == [name |-> "A",  filename |-> <<"/","p","/","P","t","l","A",".","t","s">>]
PtlA2   == [name |-> "A2", filename |-> <<"/","p","\\","A",".","j","s">>]
PtlB    == [name |-> "AB", filename |-> <<"/","p","/","P","t","l","A","B",".","t","s">>]
PtlAway == [name |-> "C",  filename |-> <<"/","q","/","P","t","l","C",".","t","s">>]

Protocols == {PtlA, PtlA2, PtlB, PtlAway}

Handlers == {"ApiH1", "ApiH2"}

\* getPtlUrl: [threw, url]
getPtlUrl(ptl) ==
    LET filename == ReplaceJsSuffix(ptl.filename) IN
    IF ~StartsWith(filename, config.protocolPath) \/ ~EndsWith(filename, <<".", "t", "s">>)
    THEN [threw |-> TRUE, url |-> <<>>]
    ELSE [threw |-> FALSE,
          url |-> ReplacePtlPrefix(ReplaceBackslashes(
                      Substr(filename, Len(config.protocolPath),
                             Len(filename) - Len(config.protocolPath) - 3)))]

\* ValidatorManager.instance.getValidator('Req' + name, filename with .ts)
getValidator(ptl) ==
    [typeName |-> <<"Req", ptl.name>>, file |-> ReplaceJsSuffix(ptl.filename)]

NoImpl == [warned |-> FALSE, threw |-> FALSE]


----------------------------------------------------------------------------
\* Registry: implementPtl

\* the entry implementPtl stores for (protocol, handler)
Registration(protocol, handler) ==
    [protocol |-> protocol, handler |-> handler, reqValidator |-> getValidator(protocol)]

\* a registry that keeps the first registration made at a path
Register_KeepFirst(registry, url, entry) ==
    [u \in DOMAIN registry \cup {url} |->
        IF u \in DOMAIN registry THEN registry[u] ELSE entry]

\* this._implementedUrl[url] = entry
Register(registry, url, entry) ==
    [u \in DOMAIN registry \cup {url} |-> IF u = url THEN entry ELSE registry[u]]

\* the duplicate test of implementPtl: this._implementedUrl[url] is truthy
IsDuplicate(registry, url) == url \in DOMAIN registry

\* a registration that replaces the whole registry by the new entry
implementPtl_Replacing(protocol, handler) ==
    LET r == getPtlUrl(protocol) IN
    /\ IF r.threw
       THEN /\ lastImpl' = [warned |-> FALSE, threw |-> TRUE]
            /\ UNCHANGED implementedUrl
       ELSE /\ lastImpl' = [warned |-> IsDuplicate(implementedUrl, r.url), threw |-> FALSE]
            /\ implementedUrl' = Register(<<>>, r.url, Registration(protocol, handler))
    /\ UNCHANGED <<config, onApiComplete, expressApp, server, pc, req, res, validateResult, handlerResult,
                   deferred, uncaught, log>>


implementPtl(protocol, handler) ==
    LET r == getPtlUrl(protocol) IN
    /\ IF r.threw
       THEN /\ lastImpl' = [warned |-> FALSE, threw |-> TRUE]
            /\ UNCHANGED implementedUrl
       ELSE /\ lastImpl' = [warned |-> IsDuplicate(implementedUrl, r.url), threw |-> FALSE]
            /\ implementedUrl' = Register(implementedUrl, r.url, Registration(protocol, handler))
    /\ UNCHANGED <<config, onApiComplete, expressApp, server, pc, req, res, validateResult, handlerResult,
                   deferred, uncaught, log>>

----------------------------------------------------------------------------
\* Requests and responses

\* req.path of the requests delivered by the transport
Paths == { <<"/","v","/","A">>, <<"/","A">> }

\* values of the reserved field __tsrpc_url__ in a decoded body
UrlFieldValues ==
    {Undefined, JsStr(<<>>), JsStr(<<"/","A">>)}

\* values of the field `name` in a decoded body
NameValues == {Undefined, JsStr(<<"w">>), JsNum(<<"5">>)}

\* request bodies: one that does not decode, and the objects that decode
Bodies ==
    {[ok |-> FALSE, url |-> Undefined, name |-> Undefined]}
    \cup [ok : {TRUE}, url : UrlFieldValues, name : NameValues]

NoArgs == [def |-> FALSE, url |-> Undefined, name |-> Undefined]

\* ApiRequestExtend: req.args is the decoded body, or undefined when decoding fails
ApiRequestExtend(body) ==
    IF body.ok THEN [def |-> TRUE, url |-> body.url, name |-> body.name] ELSE NoArgs

ErrEnvelope(message, info) == [kind |-> "error", message |-> message, info |-> info]

SuccEnvelope(payload) == [kind |-> "succ", message |-> payload, info |-> ""]

\* ApiResponseExtend: res.error(message, info) writes an error envelope
ResError(r, message, info) == [r EXCEPT !.sent = Append(@, ErrEnvelope(message, info))]

\* ApiResponseExtend: res.succ(payload) writes a success envelope
ResSucc(r, payload) == [r EXCEPT !.sent = Append(@, SuccEnvelope(payload))]

\* res.status(400).send(text): a plain response, written without res.error
ResStatusSend(r, status, text) ==
    [r EXCEPT !.sent = Append(@, [kind |-> "raw", message |-> text, info |-> status])]

NoValidateResult == [ran |-> FALSE, isError |-> FALSE, fieldName |-> "", message |-> ""]

NoHandlerResult == [kind |-> "none", handler |-> "", message |-> <<>>, info |-> ""]

\* reqValidator.validate(args) of the validators the registry holds:
\* ReqA has `name?: string`, ReqA2 and ReqB have `name: string`
validate(validator, args) ==
    IF args.name.t = "number"
    THEN [ran |-> TRUE, isError |-> TRUE, fieldName |-> "name", message |-> "must be string"]
    ELSE IF args.name.t = "undefined" /\ validator.typeName # <<"Req", "A">>
    THEN [ran |-> TRUE, isError |-> TRUE, fieldName |-> "name", message |-> "is required"]
    ELSE [ran |-> TRUE, isError |-> FALSE, fieldName |-> "", message |-> ""]

----------------------------------------------------------------------------
\* init(): the pipeline

\* body parser, rpcServer attach, ApiRequestExtend, ApiResponseExtend
ParseBody(path, body) ==
    /\ server = "listening"
    /\ pc \in {"idle", "done"}
    /\ ~deferred
    /\ req' = [path |-> path, body |-> body, args |-> ApiRequestExtend(body),
               rpcUrl |-> Undefined, rpcPtl |-> <<>>]
    /\ res' = [apiPreCheckError |-> <<>>, sent |-> <<>>]
    /\ validateResult' = NoValidateResult
    /\ handlerResult' = NoHandlerResult
    /\ uncaught' = "none"
    /\ log' = <<>>
    /\ pc' = "check"
    /\ UNCHANGED <<config, onApiComplete, expressApp, server, implementedUrl, lastImpl, deferred>>

PreCheckError(message, code) == <<[message |-> message, code |-> code]>>

\* whether path-addressed mode rejects the reserved field: if (req.args.__tsrpc_url__)
ReservedFieldAppears(args) == Truthy(args.url)

\* a pre-check failure that answers at once instead of leaving the error pending
PreCheckFail_Abort(rs, message, code) == ResError(rs, message, code)

\* (res as any).apiPreCheckError = [message, code]; next()
PreCheckFail(rs, message, code) ==
    [rs EXCEPT !.apiPreCheckError = PreCheckError(message, code)]

\* field addressing that leaves the reserved field in the arguments
TakeReservedField_NoDelete(rq) == [rq EXCEPT !.rpcUrl = rq.args.url]

\* field addressing: req.rpcUrl = req.args.__tsrpc_url__; delete req.args.__tsrpc_url__
TakeReservedField(rq) ==
    [rq EXCEPT !.rpcUrl = rq.args.url, !.args.url = Undefined]

\* path addressing that forgets the leading '/'
RpcUrlOfPath_NoSlash(cfg, path) == JsStr(SubstrFrom(path, Len(cfg.urlRootPath)))

\* path addressing: '/' + req.path.substr(this.config.urlRootPath.length)
RpcUrlOfPath(cfg, path) ==
    JsStr(<<"/">> \o SubstrFrom(path, Len(cfg.urlRootPath)))

\* a lookup that accepts an entry whose path is a prefix of the url
Lookup_Prefix(registry, url) ==
    LET hits == {u \in DOMAIN registry : StartsWith(url, u)} IN
    IF hits = {} THEN <<>> ELSE <<registry[CHOOSE u \in hits : TRUE]>>

\* this._implementedUrl[url]: the entry, or nothing
Lookup(registry, url) ==
    IF url \in DOMAIN registry THEN <<registry[url]>> ELSE <<>>

\* the "Check if protocol registered" middleware: [req, res] after it
ProtocolCheck(cfg, registry, rq, rs) ==
    IF ~rq.args.def THEN [req |-> rq, res |-> rs]
    ELSE IF cfg.hideApiPath /\ IsNullish(rq.args.url)
    THEN [req |-> rq,
          res |-> PreCheckFail(rs,
                     <<"HideApiPath is enabled, set it to true too in your client config.">>,
                     "REQ_CANT_BE_RESOLVED")]
    ELSE IF ~cfg.hideApiPath /\ ReservedFieldAppears(rq.args)
    THEN [req |-> rq,
          res |-> PreCheckFail(rs,
                     <<"HideApiPath is disabled, set it to false too in your client config.">>,
                     "REQ_CANT_BE_RESOLVED")]
    ELSE IF ~cfg.hideApiPath /\ ~StartsWith(rq.path, cfg.urlRootPath)
    THEN [req |-> rq, res |-> PreCheckFail(rs, <<"Invalid path">>, "INVALID_PATH")]
    ELSE LET resolved ==
                 IF cfg.hideApiPath
                 THEN TakeReservedField(rq)
                 ELSE [rq EXCEPT !.rpcUrl = RpcUrlOfPath(cfg, rq.path)]
         IN IF ~Truthy(resolved.rpcUrl)
            THEN [req |-> resolved,
                  res |-> PreCheckFail(rs, <<"Request cannot be resolved">>,
                                       "REQ_CANT_BE_RESOLVED")]
            ELSE [req |-> [resolved EXCEPT !.rpcPtl =
                              LET found == Lookup(registry, resolved.rpcUrl.s) IN
                              IF found # <<>> THEN <<found[1].protocol>> ELSE <<>>],
                  res |-> rs]

CheckProtocol ==
    /\ pc = "check"
    /\ LET r == ProtocolCheck(config, implementedUrl, req, res) IN
       /\ req' = r.req
       /\ res' = r.res
    /\ pc' = "before"
    /\ UNCHANGED <<config, onApiComplete, expressApp, server, implementedUrl, lastImpl, validateResult,
                   handlerResult, deferred, uncaught, log>>


\* what a middleware registered through use()/get()/post() does to the request
\* before calling next(): nothing, or it rewrites req.rpcUrl
MiddlewareEffects == {Undefined, JsStr(<<"/","A","B">>)}

\* expressApp.use(this._routerBeforeApiHandler)
RouterBeforeApiHandler ==
    /\ pc = "before"
    /\ \E m \in MiddlewareEffects :
          req' = IF m = Undefined THEN req ELSE [req EXCEPT !.rpcUrl = m]
    /\ pc' = "final"
    /\ UNCHANGED <<config, onApiComplete, expressApp, server, implementedUrl, lastImpl, res, validateResult,
                   handlerResult, deferred, uncaught, log>>

\* pre-dispatch tests without the test of req.rpcPtl
PreDispatch_NoNotFound(rq, rs) ==
    IF ~rq.args.def THEN "badBody"
    ELSE IF rs.apiPreCheckError # <<>> THEN "preCheck"
    ELSE "validate"

\* pre-dispatch tests with the test of req.rpcPtl made before that of apiPreCheckError
PreDispatch_NotFoundFirst(rq, rs) ==
    IF ~rq.args.def THEN "badBody"
    ELSE IF rq.rpcPtl = <<>> THEN "notFound"
    ELSE IF rs.apiPreCheckError # <<>> THEN "preCheck"
    ELSE "validate"

\* the pre-dispatch tests of the final router, in the order the code makes them
PreDispatch(rq, rs) ==
    IF ~rq.args.def THEN "badBody"
    ELSE IF rs.apiPreCheckError # <<>> THEN "preCheck"
    ELSE IF rq.rpcPtl = <<>> THEN "notFound"
    ELSE "validate"

\* a reason that always shows the validator's field and message
InvalidReason_AlwaysShow(cfg, originalError) ==
    <<originalError.fieldName, ": ", originalError.message>>

\* the client-visible reason of a validation failure
InvalidReason(cfg, originalError) ==
    IF cfg.showParamInvalidReason
    THEN <<originalError.fieldName, ": ", originalError.message>>
    ELSE <<"Invalid Request Parameter">>

\* a "validate request" that reports the failure and goes on without returning
ValidateRequest_NoReturn(cfg, entry, rq, rs) ==
    LET result == validate(entry.reqValidator, rq.args) IN
    IF result.isError
    THEN [result |-> result, rejected |-> FALSE,
          res |-> ResError(rs, InvalidReason(cfg, result), "INVALID_REQ_PARAM")]
    ELSE [result |-> result, rejected |-> FALSE, res |-> rs]

\* "validate request": the validator's result, the response after it, and
\* whether the router returns without calling the handler
ValidateRequest(cfg, entry, rq, rs) ==
    LET result == validate(entry.reqValidator, rq.args) IN
    IF result.isError
    THEN [result |-> result, rejected |-> TRUE,
          res |-> ResError(rs, InvalidReason(cfg, result), "INVALID_REQ_PARAM")]
    ELSE [result |-> result, rejected |-> FALSE, res |-> rs]

\* the default hooks
DefaultOnPtlNotFound(rs) == ResError(rs, <<"404 Not Found">>, "PTL_NOT_FOUND")

\* an unhandled-error hook that forwards the error's message
DefaultOnUnhandledApiError_Leaks(err, rs) ==
    ResError(rs, err.message, "UNHANDLED_API_ERROR")

DefaultOnUnhandledApiError(err, rs) ==
    ResError(rs, <<"Internal Server Error">>, "UNHANDLED_API_ERROR")

\* a hook is the default one, or an override that raises
HookBehaviours == {"default", "throws"}

\* the final router up to the await of the handler
ApiHandlerRouter ==
    /\ pc = "final"
    /\ LET stage == PreDispatch(req, res) IN
       \/ /\ stage = "badBody"
          /\ res' = ResStatusSend(res, "400", <<"Invalid Request Body">>)
          /\ pc' = "done"
          /\ UNCHANGED <<validateResult, handlerResult, uncaught, log>>
       \/ /\ stage = "preCheck"
          /\ res' = ResError(res, res.apiPreCheckError[1].message, res.apiPreCheckError[1].code)
          /\ pc' = "done"
          /\ UNCHANGED <<validateResult, handlerResult, uncaught, log>>
       \/ /\ stage = "notFound"
          /\ log' = Append(log, "onPtlNotFound")
          /\ \E hook \in HookBehaviours :
                IF hook = "default"
                THEN res' = DefaultOnPtlNotFound(res) /\ UNCHANGED uncaught
                ELSE uncaught' = "onPtlNotFound" /\ UNCHANGED res
          /\ pc' = "done"
          /\ UNCHANGED <<validateResult, handlerResult>>
       \/ /\ stage = "validate"
          /\ ~(req.rpcUrl.t = "string" /\ Lookup(implementedUrl, req.rpcUrl.s) # <<>>)
          \* this._implementedUrl[req.rpcUrl] is undefined: TypeError outside any try
          /\ uncaught' = "TypeError"
          /\ pc' = "done"
          /\ UNCHANGED <<res, validateResult, handlerResult, log>>
       \/ /\ stage = "validate"
          /\ req.rpcUrl.t = "string" /\ Lookup(implementedUrl, req.rpcUrl.s) # <<>>
          /\ LET entry == Lookup(implementedUrl, req.rpcUrl.s)[1]
                 v == ValidateRequest(config, entry, req, res)
             IN /\ validateResult' = v.result
                /\ res' = v.res
                /\ IF v.rejected
                   THEN /\ log' = Append(log, "validate")
                        /\ pc' = "done"
                        /\ UNCHANGED handlerResult
                   ELSE /\ handlerResult' = [kind |-> "pending", handler |-> entry.handler,
                                             message |-> <<>>, info |-> ""]
                        /\ log' = log \o <<"validate", "handler">>
                        /\ pc' = "await"
          /\ UNCHANGED uncaught
    /\ UNCHANGED <<config, onApiComplete, expressApp, server, implementedUrl, lastImpl, req, deferred>>

\* what handlers raise: TsrpcError(message, info) and Error(message)
TypedMessages == {<<"X1">>, <<"X2">>}
TypedInfos == {"Y1", "Y2"}
UntypedMessages == {<<"M1">>, <<"M2">>}

\* the handler (test/api/ApiHelloWorld): it calls res.succ and returns, returns
\* with a timer pending, throws a TsrpcError, or throws an Error
ApiHandler ==
    /\ pc = "await"
    /\ \/ /\ res' = ResSucc(res, <<"reply">>)
          /\ handlerResult' = [handlerResult EXCEPT !.kind = "returned"]
          /\ UNCHANGED deferred
       \/ /\ deferred' = TRUE
          /\ handlerResult' = [handlerResult EXCEPT !.kind = "returned"]
          /\ UNCHANGED res
       \/ /\ \E x \in TypedMessages, y \in TypedInfos :
                handlerResult' = [handlerResult EXCEPT !.kind = "TsrpcError",
                                                       !.message = x, !.info = y]
          /\ UNCHANGED <<res, deferred>>
       \/ /\ \E m \in UntypedMessages :
                handlerResult' = [handlerResult EXCEPT !.kind = "Error", !.message = m]
          /\ UNCHANGED <<res, deferred>>
    /\ pc' = "settled"
    /\ UNCHANGED <<config, onApiComplete, expressApp, server, implementedUrl, lastImpl, req, validateResult,
                   uncaught, log>>

\* a catch clause without the `instanceof TsrpcError` branch
Catch_NoTypedBranch(hr, rs, lg, hook) ==
    IF hr.kind \in {"TsrpcError", "Error"}
    THEN IF hook = "default"
         THEN [res |-> ResError(rs, <<"Internal Server Error">>, "UNHANDLED_API_ERROR"),
               log |-> Append(lg, "onUnhandledApiError"), uncaught |-> "none"]
         ELSE [res |-> rs, log |-> Append(lg, "onUnhandledApiError"),
               uncaught |-> "onUnhandledApiError"]
    ELSE [res |-> rs, log |-> lg, uncaught |-> "none"]

\* the catch clause: [res, log, uncaught] after it, given what the handler did
\* and what the unhandled-error hook does
Catch(hr, rs, lg, hook) ==
    IF hr.kind = "TsrpcError"
    THEN [res |-> ResError(rs, hr.message, hr.info), log |-> lg, uncaught |-> "none"]
    ELSE IF hr.kind = "Error"
    THEN IF hook = "default"
         THEN [res |-> DefaultOnUnhandledApiError(hr, rs),
               log |-> Append(lg, "onUnhandledApiError"), uncaught |-> "none"]
         ELSE [res |-> rs, log |-> Append(lg, "onUnhandledApiError"),
               uncaught |-> "onUnhandledApiError"]
    ELSE [res |-> rs, log |-> lg, uncaught |-> "none"]

\* this.onApiComplete && this.onApiComplete(req, res): [log, uncaught] after it
Complete(isSet, lg, hook) ==
    IF ~isSet THEN [log |-> lg, uncaught |-> "none"]
    ELSE [log |-> Append(lg, "onApiComplete"),
          uncaught |-> IF hook = "throws" THEN "onApiComplete" ELSE "none"]

\* a final router that forces a completion when the handler returned
\* without having written
AfterAwait_ForcesCompletion ==
    /\ pc = "settled"
    /\ \E unhandledHook \in HookBehaviours, completeHook \in {"returns", "throws"} :
          LET c == Catch(handlerResult, res, log, unhandledHook) IN
          /\ res' = IF handlerResult.kind = "returned" /\ c.res.sent = <<>>
                    THEN ResError(c.res, <<"Internal Server Error">>, "UNHANDLED_API_ERROR")
                    ELSE c.res
          /\ IF c.uncaught # "none"
             THEN log' = c.log /\ uncaught' = c.uncaught
             ELSE LET d == Complete(onApiComplete, c.log, completeHook)
                  IN log' = d.log /\ uncaught' = d.uncaught
    /\ pc' = "done"
    /\ UNCHANGED <<config, onApiComplete, expressApp, server, implementedUrl, lastImpl, req, validateResult,
                   handlerResult, deferred>>

\* the final router after the await: catch, then the completion hook
AfterAwait ==
    /\ pc = "settled"
    /\ \E unhandledHook \in HookBehaviours, completeHook \in {"returns", "throws"} :
          LET c == Catch(handlerResult, res, log, unhandledHook) IN
          /\ res' = c.res
          /\ IF c.uncaught # "none"
             THEN log' = c.log /\ uncaught' = c.uncaught
             ELSE LET d == Complete(onApiComplete, c.log, completeHook)
                  IN log' = d.log /\ uncaught' = d.uncaught
    /\ pc' = "done"
    /\ UNCHANGED <<config, onApiComplete, expressApp, server, implementedUrl, lastImpl, req, validateResult,
                   handlerResult, deferred>>

\* the handler's setTimeout callback: res.succ
DeferredCallback ==
    /\ deferred
    /\ pc \in {"settled", "done"}
    /\ res' = ResSucc(res, <<"reply">>)
    /\ deferred' = FALSE
    /\ UNCHANGED <<config, onApiComplete, expressApp, server, implementedUrl, lastImpl, pc, req,
                   validateResult, handlerResult, uncaught, log>>

----------------------------------------------------------------------------

\* this._expressApp before init(): undefined; id counts the Express() calls
NoApp == [id |-> 0, stack |-> <<>>]

\* the middleware init() installs with expressApp.use, in order
Pipeline ==
    <<"bodyParser", "rpcServer", "ApiRequestExtend", "ApiResponseExtend",
      "checkProtocol", "routerBeforeApiHandler", "apiHandler">>

\* an init() without the `if (this._expressApp) return` guard
init_NoGuard(app) == [id |-> app.id + 1, stack |-> Pipeline]

\* init(): this._expressApp after it
init(app) ==
    IF app # NoApp THEN app
    ELSE [id |-> app.id + 1, stack |-> Pipeline]

\* start(port): init(), then this._server = this._expressApp.listen(port)
start ==
    /\ expressApp' = init(expressApp)
    /\ server' = "listening"
    /\ UNCHANGED <<config, onApiComplete, implementedUrl, lastImpl, pc, req, res,
                   validateResult, handlerResult, deferred, uncaught, log>>

\* stop(): this._server && this._server.close(); delete this._server
stop ==
    /\ server' = "none"
    /\ UNCHANGED <<config, onApiComplete, expressApp, implementedUrl, lastImpl, pc, req, res,
                   validateResult, handlerResult, deferred, uncaught, log>>

Init ==
    /\ config \in {Constructor(conf) : conf \in Confs}
    /\ onApiComplete \in BOOLEAN
    /\ expressApp = NoApp
    /\ server = "none"
    /\ implementedUrl = <<>>
    /\ lastImpl = NoImpl
    /\ pc = "idle"
    /\ req = [path |-> <<"/">>, body |-> [ok |-> FALSE, url |-> Undefined, name |-> Undefined],
              args |-> NoArgs, rpcUrl |-> Undefined, rpcPtl |-> <<>>]
    /\ res = [apiPreCheckError |-> <<>>, sent |-> <<>>]
    /\ validateResult = NoValidateResult
    /\ handlerResult = NoHandlerResult
    /\ deferred = FALSE
    /\ uncaught = "none"
    /\ log = <<>>

Next ==
    \/ \E protocol \in Protocols, handler \in Handlers : implementPtl(protocol, handler)
    \/ start
    \/ \E path \in Paths, body \in Bodies : ParseBody(path, body)
    \/ CheckProtocol
    \/ RouterBeforeApiHandler
    \/ ApiHandlerRouter
    \/ ApiHandler
    \/ AfterAwait
    \/ DeferredCallback

Spec == Init /\ [][Next]_vars

\* the registry alone: a server on which only implementPtl is called
NextRegistry ==
    \E protocol \in Protocols, handler \in Handlers : implementPtl(protocol, handler)

SpecRegistry == Init /\ [][NextRegistry]_vars

\* the life cycle: registrations, start() and stop() in any order
NextLifecycle ==
    \/ \E protocol \in Protocols, handler \in Handlers : implementPtl(protocol, handler)
    \/ start
    \/ stop

SpecLifecycle == Init /\ [][NextLifecycle]_vars

\* declared locations <protocolPath><tokens>.ts of the descriptors handed to
\* implementPtl, built from at most MaxTokens tokens
MaxTokens == 3

NameTokens == { <<"/">>, <<"\\">>, <<"P", "t", "l">>, <<"C">>, <<"-">> }

RECURSIVE Flatten(_)
Flatten(ts) == IF ts = <<>> THEN <<>> ELSE Head(ts) \o Flatten(Tail(ts))

FileNames ==
    { ProtocolPath \o Flatten(ts) \o <<".", "t", "s">> :
        ts \in UNION { [1..n -> NameTokens] : n \in 1..MaxTokens } }

\* the first implementPtl call of a server, on a descriptor at location f
implementGenerated ==
    \E f \in FileNames, h \in Handlers :
        /\ DOMAIN implementedUrl = {}
        /\ ~lastImpl.threw
        /\ implementPtl([name |-> "G", filename |-> f], h)

NextGetPtlUrl == implementGenerated

SpecGetPtlUrl == Init /\ [][NextGetPtlUrl]_vars


----------------------------------------------------------------------------
\* Properties

Count(lg, e) == Cardinality({i \in 1..Len(lg) : lg[i] = e})

IsEnvelope(m) == m.kind \in {"succ", "error"}

\* the request is over: the router has finished and no callback is pending
Quiescent == pc = "done" /\ ~deferred

\* the final router has made its pre-dispatch tests
Dispatched == pc \in {"await", "settled", "done"}

PathA == <<"/", "A">>
PathB == <<"/", "A", "B">>

GenericUnhandled == ErrEnvelope(<<"Internal Server Error">>, "UNHANDLED_API_ERROR")

NotFoundEnvelope == ErrEnvelope(<<"404 Not Found">>, "PTL_NOT_FOUND")

BadRequestResponse == [kind |-> "raw", message |-> <<"Invalid Request Body">>, info |-> "400"]

\* C1: for every request, with the hooks left as they are and whatever the
\* handler does (writes and returns, returns and writes later, raises a typed
\* or an untyped error) and whatever the pre-dispatch outcome, what is sent is
\* exactly one success or error envelope: never two, never none, and nothing
\* that is not an envelope.
C1_ExactlyOneEnvelope ==
    /\ Len(res.sent) <= 1
    /\ \A i \in 1..Len(res.sent) : IsEnvelope(res.sent[i])
    /\ (Quiescent /\ uncaught = "none" => Len(res.sent) = 1)

\* C2: a request whose arguments fail the request validator never reaches the
\* handler, and the client receives one error with code INVALID_REQ_PARAM.
C2_InvalidNeverHandled ==
    validateResult.isError =>
        /\ handlerResult.kind = "none"
        /\ Count(log, "handler") = 0
        /\ Len(res.sent) = 1
        /\ res.sent[1].kind = "error"
        /\ res.sent[1].info = "INVALID_REQ_PARAM"

C2_Witness ==
    /\ pc = "done"
    /\ validateResult.isError
    /\ req.rpcPtl # <<>>
    /\ res.sent # <<>>

\* C3: when the handler raised an untyped error, whatever is sent is the
\* generic (Internal Server Error, UNHANDLED_API_ERROR) envelope, the same for
\* every message of the error; with the default hook it is sent exactly once.
C3_UntypedIsGeneric ==
    handlerResult.kind = "Error" =>
        /\ \A i \in 1..Len(res.sent) : res.sent[i] = GenericUnhandled
        /\ (pc = "done" /\ uncaught # "onUnhandledApiError" => res.sent = <<GenericUnhandled>>)

C3_Witness ==
    /\ pc = "done"
    /\ handlerResult.kind = "Error"
    /\ handlerResult.message = <<"M2">>
    /\ res.sent = <<GenericUnhandled>>

\* C4: when the handler raised a typed error with message X and info Y, the
\* envelope written is the error (X, Y), unaltered, and the unhandled-error
\* hook is not invoked.
C4_TypedVerbatim ==
    (handlerResult.kind = "TsrpcError" /\ pc = "done") =>
        /\ res.sent = <<ErrEnvelope(handlerResult.message, handlerResult.info)>>
        /\ Count(log, "onUnhandledApiError") = 0

C4_Witness ==
    /\ pc = "done"
    /\ handlerResult.kind = "TsrpcError"
    /\ handlerResult.message = <<"X2">>
    /\ handlerResult.info = "Y1"
    /\ Len(res.sent) = 1

\* C5: the lookup finds no protocol for a resolved path that has no entry, and
\* a request for which the lookup found none is answered by the onPtlNotFound
\* hook alone (PTL_NOT_FOUND by default): no validator and no handler is
\* invoked, whatever the body contains.
C5_UnregisteredIsNotFound ==
    [][ /\ (pc = "check" /\ pc' = "before" /\ Truthy(req'.rpcUrl)
              /\ res'.apiPreCheckError = <<>>
              /\ req'.rpcUrl.s \notin DOMAIN implementedUrl)
           => req'.rpcPtl = <<>>
        /\ (pc = "final" /\ pc' # "final" /\ req.args.def
              /\ res.apiPreCheckError = <<>> /\ req.rpcPtl = <<>>)
           => /\ pc' = "done"
              /\ log' = <<"onPtlNotFound">>
              /\ ~validateResult'.ran
              /\ handlerResult'.kind = "none"
              /\ (uncaught' = "none" => res'.sent = <<NotFoundEnvelope>>)
      ]_vars

C5_Witness ==
    /\ pc = "done"
    /\ req.args.def /\ req.rpcPtl = <<>> /\ res.apiPreCheckError = <<>>
    /\ req.args.name = JsStr(<<"w">>)
    /\ PathB \in DOMAIN implementedUrl
    /\ res.sent = <<NotFoundEnvelope>>

\* C6: a request whose addressing mode does not match the configuration is
\* answered REQ_CANT_BE_RESOLVED: with hideApiPath on and the reserved field
\* absent from the decoded body, and with hideApiPath off and the reserved
\* field present in it, for every value of the field.
C6_ModeMismatch ==
    (pc = "done" /\ req.body.ok
       /\ \/ config.hideApiPath /\ req.body.url = Undefined
          \/ ~config.hideApiPath /\ req.body.url # Undefined)
    => /\ Len(res.sent) = 1
       /\ res.sent[1].kind = "error"
       /\ res.sent[1].info = "REQ_CANT_BE_RESOLVED"

\* C7: the pre-dispatch conditions are tested in the order decode failure,
\* pre-check error, no protocol found, validation failure; the first that
\* holds alone decides the outcome, and the checks after it (the not-found
\* hook, the validator) are not run.
C7_PreDispatchPriority ==
    Dispatched =>
        /\ ~req.args.def =>
              /\ res.sent = <<BadRequestResponse>>
              /\ log = <<>> /\ ~validateResult.ran
        /\ (req.args.def /\ res.apiPreCheckError # <<>>) =>
              /\ res.sent = <<ErrEnvelope(res.apiPreCheckError[1].message,
                                          res.apiPreCheckError[1].code)>>
              /\ log = <<>> /\ ~validateResult.ran
        /\ (req.args.def /\ res.apiPreCheckError = <<>> /\ req.rpcPtl = <<>>) =>
              /\ log = <<"onPtlNotFound">> /\ ~validateResult.ran
              /\ (uncaught = "none" => res.sent = <<NotFoundEnvelope>>)
        /\ validateResult.isError =>
              /\ req.args.def /\ res.apiPreCheckError = <<>> /\ req.rpcPtl # <<>>
              /\ log = <<"validate">>
              /\ Len(res.sent) = 1 /\ res.sent[1].info = "INVALID_REQ_PARAM"

\* a pre-check error, no protocol and arguments no validator accepts, at once
C7_Witness ==
    /\ pc = "done"
    /\ req.args.def
    /\ res.apiPreCheckError # <<>>
    /\ req.rpcPtl = <<>>
    /\ req.args.name.t = "number"
    /\ Len(res.sent) = 1

\* C8: for every request whose handler was invoked, the completion hook, when
\* set, has fired exactly once when the router is done, however the handler
\* settled, and a failure of the hook does not escape the router.
C8_CompletionOnce ==
    (pc = "done" /\ onApiComplete /\ handlerResult.kind # "none") =>
        /\ Count(log, "onApiComplete") = 1
        /\ uncaught # "onApiComplete"

\* C9: no exception escapes the final router, and every request is answered
\* by one success or error envelope.
C9_NothingEscapes ==
    /\ uncaught = "none"
    /\ Quiescent => (Len(res.sent) = 1 /\ IsEnvelope(res.sent[1]))

\* C10: a registration whose descriptor resolves to a path does not raise and
\* leaves, at that path, exactly the triple {descriptor, handler, validator of
\* the descriptor}, whatever was there before; it warns when the path was
\* taken; every other path keeps its entry.
C10_LastWriteWins ==
    [][ \A p \in Protocols, h \in Handlers :
          (implementPtl(p, h) /\ ~getPtlUrl(p).threw) =>
             LET url == getPtlUrl(p).url IN
             /\ ~lastImpl'.threw
             /\ DOMAIN implementedUrl' = DOMAIN implementedUrl \cup {url}
             /\ implementedUrl'[url] =
                   [protocol |-> p, handler |-> h, reqValidator |-> getValidator(p)]
             /\ \A u \in DOMAIN implementedUrl \ {url} : implementedUrl'[u] = implementedUrl[u]
             /\ (url \in DOMAIN implementedUrl => lastImpl'.warned)
      ]_vars

\* PtlA2 with ApiH2 has replaced an earlier registration at /A
C10_Witness ==
    /\ lastImpl.warned /\ ~lastImpl.threw
    /\ PathA \in DOMAIN implementedUrl
    /\ implementedUrl[PathA].protocol = PtlA2
    /\ implementedUrl[PathA].handler = "ApiH2"


\* the last segment of a file name: what follows its last '/' or '\'
LastSegment(s) ==
    LET seps == {i \in 1..Len(s) : s[i] \in {"/", "\\"}} IN
    IF seps = {} THEN s
    ELSE SubSeq(s, (CHOOSE i \in seps : \A j \in seps : j <= i) + 1, Len(s))

\* a declared location outside the protocol root, without the suffix, or
\* whose final segment does not start with 'Ptl'
IsMisplaced(ptl) ==
    \/ ~StartsWith(ptl.filename, ProtocolPath)
    \/ ~(EndsWith(ptl.filename, <<".", "t", "s">>) \/ EndsWith(ptl.filename, <<".", "j", "s">>))
    \/ ~StartsWith(LastSegment(ptl.filename), <<"P", "t", "l">>)

\* C11: implementPtl on a descriptor whose location is outside the protocol
\* root, lacks the suffix, or has a final segment that does not start with
\* 'Ptl' raises, and leaves the registry as it was.
C11_MisplacedRaises ==
    [][ \A p \in Protocols, h \in Handlers :
          (implementPtl(p, h) /\ IsMisplaced(p)) =>
             /\ lastImpl'.threw
             /\ implementedUrl' = implementedUrl
      ]_vars


\* C12: for a registered path P, the protocol check of a field-addressed
\* request carrying P in the reserved field leaves the same arguments, resolved
\* path, protocol, pending error and validation outcome as that of the
\* path-addressed request to urlRootPath + P with the same arguments; and in
\* field-addressed mode the reserved field is gone from the arguments from the
\* protocol check on.
C12_FieldEqualsPath ==
    [][ /\ (pc = "check" /\ pc' = "before" /\ config.hideApiPath /\ req.body.ok
              /\ req.body.url.t = "string" /\ req.body.url.s \in DOMAIN implementedUrl)
           => LET P == req.body.url.s
                  twinCfg == [config EXCEPT !.hideApiPath = FALSE]
                  twinReq == [req EXCEPT !.path = config.urlRootPath \o Tail(P),
                                         !.args.url = Undefined, !.body.url = Undefined]
                  twin == ProtocolCheck(twinCfg, implementedUrl, twinReq, res)
                  entry == implementedUrl[P]
              IN /\ req'.args = twin.req.args
                 /\ req'.rpcUrl = twin.req.rpcUrl
                 /\ req'.rpcUrl = JsStr(P)
                 /\ req'.rpcPtl = twin.req.rpcPtl
                 /\ req'.rpcPtl = <<entry.protocol>>
                 /\ res' = twin.res
                 /\ PreDispatch(req', res') = PreDispatch(twin.req, twin.res)
                 /\ ValidateRequest(config, entry, req', res')
                       = ValidateRequest(twinCfg, entry, twin.req, twin.res)
        /\ (config.hideApiPath /\ pc' \notin {"idle", "check"}) => req'.args.url = Undefined
      ]_vars

C12_Witness ==
    /\ pc = "done"
    /\ config.hideApiPath
    /\ req.body.url = JsStr(PathA)
    /\ req.body.name = JsStr(<<"w">>)
    /\ req.args.url = Undefined
    /\ handlerResult.kind = "returned"
    /\ res.sent = <<SuccEnvelope(<<"reply">>)>>

\* a path-addressed request with decoded arguments and no reserved field
PathAddressed ==
    ~config.hideApiPath /\ req.body.ok /\ req.body.url = Undefined

\* C13: in path-addressed mode, a request with arguments and no reserved field
\* whose URL path does not start with urlRootPath is answered INVALID_PATH and
\* reaches neither the lookup nor the validator nor a handler; when the path
\* starts with the root, the resolved path is '/' followed by the rest.
C13_PathAddressing ==
    /\ (PathAddressed /\ pc = "before" /\ StartsWith(req.path, config.urlRootPath))
        => req.rpcUrl = JsStr(<<"/">> \o SubSeq(req.path, Len(config.urlRootPath) + 1,
                                                 Len(req.path)))
    /\ (PathAddressed /\ pc = "before" /\ ~StartsWith(req.path, config.urlRootPath))
        => req.rpcUrl = Undefined /\ req.rpcPtl = <<>>
    /\ (PathAddressed /\ Dispatched /\ ~StartsWith(req.path, config.urlRootPath))
        => /\ pc = "done"
           /\ res.sent = <<ErrEnvelope(<<"Invalid path">>, "INVALID_PATH")>>
           /\ req.rpcPtl = <<>>
           /\ log = <<>>
           /\ ~validateResult.ran
           /\ handlerResult.kind = "none"

C13_Witness ==
    /\ PathAddressed
    /\ pc = "done"
    /\ req.path = <<"/", "A">>
    /\ PathA \in DOMAIN implementedUrl
    /\ res.sent = <<ErrEnvelope(<<"Invalid path">>, "INVALID_PATH")>>

\* C14: the lookup is an exact match on the resolved path, and a request that
\* passes validation is dispatched, once, to the handler of the entry at the
\* request's resolved path, after the validator of that same entry accepted
\* the request's arguments.
C14_ExactEntry ==
    [][ /\ (pc = "check" /\ pc' = "before" /\ req'.rpcPtl # <<>>)
           => /\ Truthy(req'.rpcUrl)
              /\ req'.rpcUrl.s \in DOMAIN implementedUrl
              /\ req'.rpcPtl = <<implementedUrl[req'.rpcUrl.s].protocol>>
        /\ (pc = "final" /\ validateResult'.ran)
           => /\ req.rpcUrl.s \in DOMAIN implementedUrl
              /\ validateResult' = validate(implementedUrl[req.rpcUrl.s].reqValidator, req.args)
        /\ (pc = "final" /\ pc' = "await")
           => /\ req.rpcUrl.s \in DOMAIN implementedUrl
              /\ ~validateResult'.isError
              /\ handlerResult'.handler = implementedUrl[req.rpcUrl.s].handler
              /\ log' = <<"validate", "handler">>
        /\ Count(log', "handler") <= 1
      ]_vars

\* /A and /AB hold different handlers and the request for /A is with that of /A
C14_Witness ==
    /\ pc = "await"
    /\ req.rpcUrl = JsStr(PathA)
    /\ PathA \in DOMAIN implementedUrl /\ PathB \in DOMAIN implementedUrl
    /\ implementedUrl[PathA].handler # implementedUrl[PathB].handler
    /\ handlerResult.handler = implementedUrl[PathA].handler

\* the order of the stages of one request
StageOrder ==
    { <<"idle", "check">>, <<"done", "check">>, <<"check", "before">>,
      <<"before", "final">>, <<"final", "done">>, <<"final", "await">>,
      <<"await", "settled">>, <<"settled", "done">> }

\* C15: the stages of a request run in the order decode, protocol check,
\* user middleware, final router; the protocol check only leaves a pending
\* error and sends nothing, so the user middleware runs for every request,
\* before anything is reported and before the validator.
C15_StageOrder ==
    [][ /\ pc' # pc => <<pc, pc'>> \in StageOrder
        /\ (pc = "check" /\ pc' = "before")
           => res'.sent = res.sent /\ log' = log /\ validateResult' = validateResult
        /\ (res'.sent # res.sent /\ pc' # "check")
           => pc \in {"final", "await", "settled", "done"}
        /\ (validateResult'.ran /\ ~validateResult.ran) => pc = "final"
      ]_vars

\* the middleware is over and the addressing error is still pending
C15_Witness ==
    /\ pc = "final"
    /\ res.apiPreCheckError # <<>>
    /\ res.sent = <<>>


\* the location with root and suffix stripped, backslashes replaced, and
\* 'Ptl' removed from the start of the final segment only
StrippedLocation(f) ==
    LET body == ReplaceBackslashes(SubSeq(f, Len(ProtocolPath) + 1, Len(f) - 3))
        seg == LastSegment(body)
        dir == SubSeq(body, 1, Len(body) - Len(seg))
    IN IF StartsWith(seg, <<"P", "t", "l">>) THEN dir \o SubSeq(seg, 4, Len(seg)) ELSE body

\* C16: for every location that starts with the protocol root and ends with
\* '.ts', getPtlUrl is the location without root and suffix, with forward
\* slashes, and with 'Ptl' removed from the start of the final segment only.
C16_FinalSegmentPrefixOnly ==
    \A u \in DOMAIN implementedUrl :
        LET f == implementedUrl[u].protocol.filename IN
        (StartsWith(f, ProtocolPath) /\ EndsWith(f, <<".", "t", "s">>))
            => u = StrippedLocation(f)


\* C17: when the handler returns normally the final router writes nothing to
\* the response, whether or not the handler has written: its only action is
\* the completion hook; a handler that returned without writing and whose
\* deferred callback calls succ ends with that one success envelope.
C17_PipelineSilentOnReturn ==
    [][ /\ (pc = "settled" /\ pc' = "done" /\ handlerResult.kind = "returned")
           => /\ res' = res
              /\ log' = IF onApiComplete THEN Append(log, "onApiComplete") ELSE log
              /\ UNCHANGED <<req, validateResult, handlerResult, implementedUrl, deferred>>
        /\ (handlerResult'.kind = "returned" /\ pc' \in {"settled", "done"})
           => res'.sent = IF deferred' THEN <<>> ELSE <<SuccEnvelope(<<"reply">>)>>
      ]_vars

\* the router is over, the handler returned without writing, the timer is pending
C17_Witness ==
    /\ pc = "done"
    /\ handlerResult.kind = "returned"
    /\ deferred
    /\ res.sent = <<>>
    /\ Count(log, "onApiComplete") = 1

\* C18: a validation failure is answered with code INVALID_REQ_PARAM; with
\* showParamInvalidReason off the message is 'Invalid Request Parameter'
\* whatever the field and the validator's message, with it on the message is
\* '<fieldName>: <message>' of the validator's error.
C18_InvalidReasonByConfig ==
    validateResult.isError
        => res.sent = << ErrEnvelope(IF config.showParamInvalidReason
                                     THEN <<validateResult.fieldName, ": ", validateResult.message>>
                                     ELSE <<"Invalid Request Parameter">>,
                                     "INVALID_REQ_PARAM") >>

C18_Witness ==
    /\ ~config.showParamInvalidReason
    /\ validateResult.isError
    /\ req.args.name.t = "number"
    /\ res.sent = <<ErrEnvelope(<<"Invalid Request Parameter">>, "INVALID_REQ_PARAM")>>

\* a step of the request pipeline
RequestStep ==
    pc' # pc \/ req' # req \/ res' # res \/ validateResult' # validateResult
        \/ handlerResult' # handlerResult \/ deferred' # deferred \/ log' # log
        \/ uncaught' # uncaught

\* C19: the set of registered paths never shrinks, the steps of the request
\* pipeline leave the registry as it is, an entry changes only by a
\* registration at its path, and the lookup of a request reads the registry
\* as it is when the request arrives, entries registered after start()
\* included.
C19_RegistryFrame ==
    [][ /\ DOMAIN implementedUrl \subseteq DOMAIN implementedUrl'
        /\ RequestStep => implementedUrl' = implementedUrl
        /\ implementedUrl' # implementedUrl
           => \E u \in DOMAIN implementedUrl' :
                 /\ ~lastImpl'.threw
                 /\ \A w \in DOMAIN implementedUrl : w # u => implementedUrl'[w] = implementedUrl[w]
                 /\ DOMAIN implementedUrl' = DOMAIN implementedUrl \cup {u}
        /\ (pc = "check" /\ pc' = "before" /\ Truthy(req'.rpcUrl) /\ res'.apiPreCheckError = <<>>)
           => req'.rpcPtl = IF req'.rpcUrl.s \in DOMAIN implementedUrl
                            THEN <<implementedUrl[req'.rpcUrl.s].protocol>> ELSE <<>>
      ]_vars

\* two paths are registered and the one of the running request was registered
\* after the server started, while its lookup had found nothing
C19_Witness ==
    /\ server = "listening"
    /\ pc = "before"
    /\ res.apiPreCheckError = <<>>
    /\ req.rpcUrl = JsStr(PathA)
    /\ req.rpcPtl = <<>>
    /\ PathA \in DOMAIN implementedUrl /\ PathB \in DOMAIN implementedUrl

\* C20: whatever the sequence of start() and stop(), the application is
\* created once and its middleware stack is the one the first start()
\* installed, each stage once; stop() without a running server changes
\* nothing.
C20_PipelineBuiltOnce ==
    [][ /\ expressApp # NoApp => expressApp' = expressApp
        /\ expressApp'.id <= 1
        /\ expressApp' # NoApp
           => /\ expressApp'.stack = Pipeline
              /\ \A i, j \in 1..Len(expressApp'.stack) :
                    expressApp'.stack[i] = expressApp'.stack[j] => i = j
        /\ server' = "listening" => expressApp' # NoApp
        /\ (stop /\ server = "none") => UNCHANGED vars
      ]_vars

\* started, stopped and started again: still the first application
C20_Witness ==
    /\ expressApp = [id |-> 1, stack |-> Pipeline]
    /\ server = "none"
    /\ DOMAIN implementedUrl # {}

====
